---------------------------- MODULE Spec2Model ----------------------------
(***************************************************************************)
(* Gamification engine of the reading-habit tracker: check-in ledger,      *)
(* UserStats aggregation, streaks, badges, levels, points ledger and the   *)
(* daily challenge.                                                        *)
(*                                                                         *)
(* Every `await db.*` of a handler is one atomic step of the request that  *)
(* runs it; code between two awaits runs with the step that follows the    *)
(* earlier await (Node runs it without yielding).  Reads of the static     *)
(* badge catalog are folded into the neighbouring step.                    *)
(*                                                                         *)
(* Calendar dates are day numbers.  The server clock is taken to be UTC,   *)
(* so format(new Date(),'yyyy-MM-dd'), toISOString().split('T')[0],        *)
(* DATE(CURRENT_TIMESTAMP) and isToday(new Date(s)) all speak of the same  *)
(* calendar day; a request runs within one calendar day.                   *)
(***************************************************************************)
EXTENDS Integers, Sequences, FiniteSets, Bags, TLC

\* ------------------------------------------------------------ bounds
MaxDay == 2
MaxCheckIns == 2
MaxDate == 6
MaxOverlaps == 1
MaxStarts == 2
MaxHours == 3
NotifyDay == 5
MaxNotifs == 2

\* ------------------------------------------------------------ data
Users == {1, 2}
Procs == {1, 2}
\* the users whose requests the specifications below follow
Clients == {1}
BookChoices == {1, 10}
\* what a client sends with a check-in: <<readingTime, notes>>
CheckInInputs == {<<10, "">>, <<6000, "x">>}
\* what PUT /checkins/:id sets: <<readingTime, notes>>, -1 and "undefined" for a
\* field the request leaves out
UpdateInputs == {<<6000, "undefined">>, <<-1, "undefined">>}
SeedBooks == 9

Max(a, b) == IF a >= b THEN a ELSE b

Min(a, b) == IF a <= b THEN a ELSE b

\* the badge catalog, in id order (insertInitialData)
badges ==
  << [id |-> 1, condition |-> "first_checkin", points |-> 10],
     [id |-> 2, condition |-> "streak_7", points |-> 50],
     [id |-> 3, condition |-> "streak_30", points |-> 200],
     [id |-> 4, condition |-> "books_100", points |-> 300],
     [id |-> 5, condition |-> "time_100h", points |-> 500],
     [id |-> 6, condition |-> "notes_50", points |-> 100] >>

BadgeIds == DOMAIN badges

\* getAllBadges: SELECT * FROM badges ORDER BY points ASC (badge ids)
getAllBadges == <<1, 2, 6, 3, 4, 5>>

\* the scheduler's tasks, in the order start() sets them up, and the hour of the
\* day at which each one's check is let through
Tasks == {"dailyReminders", "parentReminders", "notificationCleanup"}

TaskOrder == <<"dailyReminders", "parentReminders", "notificationCleanup">>

GateHour(task) ==
  CASE task = "dailyReminders" -> 20
    [] task = "parentReminders" -> 9
    [] task = "notificationCleanup" -> 2

\* table users: user 1 is a child, user 2 a parent
role(u) == IF u = 1 THEN "child" ELSE "parent"

\* table user_relationships: user 2 is the parent of user 1
user_relationships ==
  {[parentId |-> 2, childId |-> 1, relationshipType |-> "parent-child"]}

\* cleanupOldNotifications(30)
DaysToKeep == 30

\* a user_stats row as `INSERT INTO user_stats (userId)` leaves it
DefaultStats ==
  [totalBooks |-> 0, totalReadingTime |-> 0, consecutiveDays |-> 0,
   longestStreak |-> 0, totalPoints |-> 0, level |-> 1]

VARIABLES
  today,        \* the calendar day of the server clock
  checkins,     \* table checkins: a set of rows
  nextId,       \* AUTOINCREMENT of checkins.id
  maxId,        \* the last id this run may hand out (bounds the run)
  user_stats,   \* table user_stats: userId -> row
  user_badges,  \* table user_badges: userId -> badgeId -> number of rows
  points,       \* table points: a bag of rows
  procs,        \* in-flight requests: the handler each runs and where it is
                \* (pointsBefore: the user's totalPoints when a check-in arrived)
  call,         \* the last direct call of a pure routine and what it returned
  overlaps,     \* how many requests have arrived while another was in flight
  hour,         \* the hour of the day of the server clock (getHours)
  elapsed,      \* the hours that have gone by in this run (bounds the run)
  intervals,    \* SchedulerService.intervals: the timer handles it holds
  timers,       \* the interval timers of the event loop that are not cleared
  nextHandle,   \* the handle the next setInterval returns
  due,          \* the timers that have yet to fire in the current hour
  checks,       \* how often each task's check of NotificationService was called
  notifications,  \* table notifications: a set of rows
  nextNotif     \* AUTOINCREMENT of notifications.id

\* the scheduler and its clock
sched == <<hour, elapsed, intervals, timers, nextHandle, due, checks>>

notif == <<notifications, nextNotif>>

vars ==
  <<today, checkins, nextId, maxId, user_stats, user_badges, points, procs, call, overlaps,
    sched, notif>>

data == <<today, checkins, nextId, maxId, user_stats, user_badges, points>>

Idle ==
  [op |-> "idle", pc |-> "idle", userId |-> 0, bookId |-> 0, id |-> 0,
   readingTime |-> 0, notes |-> "", today |-> 0, agg |-> <<0, 0>>, streak |-> 0, longest |-> 0,
   snap |-> DefaultStats, earned |-> {}, queue |-> <<>>, bi |-> 0,
   pts |-> 0, reason |-> "", relatedType |-> "NULL", completed |-> FALSE, current |-> 0, ret |-> "none",
   pointsBefore |-> 0]

NoCall == [op |-> "none", dates |-> {}, today |-> 0, ret |-> 0]

\* ------------------------------------------------------------ queries
RECURSIVE SumReadingTime(_)
SumReadingTime(rows) ==
  IF rows = {} THEN 0
  ELSE LET r == CHOOSE x \in rows : TRUE
       IN r.readingTime + SumReadingTime(rows \ {r})

UserCheckIns(u) == {c \in checkins : c.userId = u}

\* SELECT COUNT(DISTINCT bookId), SUM(readingTime) FROM checkins WHERE userId = ?
StatsQuery(u) ==
  << Cardinality({c.bookId : c \in UserCheckIns(u)}),
     SumReadingTime(UserCheckIns(u)) >>

\* SELECT DISTINCT checkinDate ... ORDER BY checkinDate DESC
RECURSIVE SortDesc(_)
SortDesc(S) ==
  IF S = {} THEN <<>>
  ELSE LET m == CHOOSE x \in S : \A y \in S : y <= x
       IN <<m>> \o SortDesc(S \ {m})

DistinctDates(u) == {c.checkinDate : c \in UserCheckIns(u)}

\* isToday(new Date(checkin.checkinDate)) against the clock `now`
isToday(d, now) == d = now

\* the for loop of getCheckInStreak: `ds` the dates left, `currentDate` the
\* walking date, `now` the clock (subDays(currentDate,1) is still now-1 while
\* streak = 0)
RECURSIVE StreakLoop(_, _, _, _)
StreakLoop(ds, streak, currentDate, now) ==
  IF ds = <<>> THEN streak
  ELSE LET d == Head(ds) IN
    IF streak = 0 /\ ~isToday(d, now) /\ currentDate - 1 # d THEN streak
    ELSE IF currentDate = d \/ currentDate - 1 = d
         THEN StreakLoop(Tail(ds), streak + 1, currentDate - 1, now)
         ELSE streak

\* (a count that walks back from the most recent check-in, not from the clock)
getCheckInStreakFromLatest(dates, now) ==
  IF dates = {} THEN 0
  ELSE StreakLoop(SortDesc(dates), 0, Head(SortDesc(dates)), Head(SortDesc(dates)))

getCheckInStreak(dates, now) ==
  IF dates = {} THEN 0 ELSE StreakLoop(SortDesc(dates), 0, now, now)

LevelOf(totalBooks) == (totalBooks \div 10) + 1

\* ------------------------------------------------------------ initial state
\* rows a user has after checking in books 1..n on day 0, 10 minutes each
SeedRows(u, n) ==
  {[id |-> b, userId |-> u, bookId |-> b, checkinDate |-> 0,
    readingTime |-> 10, notes |-> ""] : b \in 1..n}

\* the first_checkin row the first of those check-ins put in the ledger
SeedPoints(u, n) ==
  IF n = 0 THEN EmptyBag
  ELSE SetToBag({[userId |-> u, points |-> 10, reason |-> "badge", relatedId |-> 1,
                  relatedType |-> "badge", createdAt |-> 0]})

\* user_stats as the last of those check-ins left it
SeedStats(n) ==
  IF n = 0 THEN DefaultStats
  ELSE [totalBooks |-> n, totalReadingTime |-> 10 * n, consecutiveDays |-> 1,
        longestStreak |-> 1, totalPoints |-> IF n = 1 THEN 10 ELSE 0,
        level |-> LevelOf(n)]

\* the database after user 1 checked in books 1..n, all on day 0 (n = 0: a fresh
\* database, where createUser has made every user's user_stats row)
InitWith(n) ==
  /\ today = 1
  /\ checkins = SeedRows(1, n)
  /\ nextId = n + 1
  /\ maxId = n + MaxCheckIns
  /\ user_stats = [u \in Users |-> IF u = 1 THEN SeedStats(n) ELSE DefaultStats]
  /\ user_badges = [u \in Users |-> [b \in BadgeIds |->
                      IF u = 1 /\ b = 1 /\ n > 0 THEN 1 ELSE 0]]
  /\ points = SeedPoints(1, n)
  /\ procs = [p \in Procs |-> Idle]
  /\ call = NoCall
  /\ overlaps = 0
  /\ elapsed = 0
  /\ intervals = <<>>
  /\ timers = {}
  /\ nextHandle = 1
  /\ due = {}
  /\ checks = [t \in Tasks |-> 0]
  /\ notifications = {}
  /\ nextNotif = 1

Init == InitWith(0) /\ hour = 0

InitSeeded == InitWith(SeedBooks) /\ hour = 0

\* a SchedulerService just constructed, at any hour of the day
InitScheduler == InitWith(0) /\ hour \in 0..23

\* ---- a database with a history: by day T each user u has checked in book 1
\* (10 minutes, no notes) on the days D[u], one request at a time
HistoryPairs(D) == {ud \in Users \X (0..NotifyDay + 1) : ud[2] \in D[ud[1]]}

HistoryId(D, u, d) ==
  1 + Cardinality({ve \in HistoryPairs(D) : ve[2] < d \/ (ve[2] = d /\ ve[1] < u)})

HistoryRows(D) ==
  {[id |-> HistoryId(D, ud[1], ud[2]), userId |-> ud[1], bookId |-> 1,
    checkinDate |-> ud[2], readingTime |-> 10, notes |-> ""] : ud \in HistoryPairs(D)}

MaxOf(S) == CHOOSE x \in S : \A y \in S : y <= x

MinOf(S) == CHOOSE x \in S : \A y \in S : x <= y

\* user_stats as the check-in of the last day of S left it: every recompute took
\* the streak as of its day, and only the first check-in was granted a badge
HistoryStats(S) ==
  IF S = {} THEN DefaultStats
  ELSE [totalBooks |-> 1, totalReadingTime |-> 10 * Cardinality(S),
        consecutiveDays |-> getCheckInStreak(S, MaxOf(S)),
        longestStreak |-> MaxOf({getCheckInStreak({x \in S : x <= d}, d) : d \in S}),
        totalPoints |-> IF Cardinality(S) = 1 THEN 10 ELSE 0,
        level |-> 1]

HistoryPoints(D) ==
  SetToBag({[userId |-> u, points |-> 10, reason |-> "badge", relatedId |-> 1,
             relatedType |-> "badge", createdAt |-> MinOf(D[u])] :
            u \in {v \in Users : D[v] # {}}})

\* the parent reminders the 9 o'clock scans of 30 and 29 days ago made for the
\* parent of a child that had not checked in yet
OldNotifications ==
  {[id |-> i, userId |-> 2, type |-> "reminder", title |-> "parent", isRead |-> FALSE,
    createdAt |-> NotifyDay - DaysToKeep - 1 + i, days |-> 7] : i \in 1..2}

\* day NotifyDay: the child has checked in on any days up to today, the parent
\* yesterday or never, and each old notification is there or was deleted by
\* its user
InitNotify ==
  /\ today = NotifyDay
  /\ hour = 0
  /\ \E S \in SUBSET (1..NotifyDay), P \in {{}, {NotifyDay - 1}} :
       LET D == [u \in Users |-> IF u = 1 THEN S ELSE P] IN
       /\ checkins = HistoryRows(D)
       /\ nextId = Cardinality(HistoryRows(D)) + 1
       /\ maxId = Cardinality(HistoryRows(D)) + MaxCheckIns
       /\ user_stats = [u \in Users |-> HistoryStats(D[u])]
       /\ user_badges = [u \in Users |-> [b \in BadgeIds |->
                           IF b = 1 /\ D[u] # {} THEN 1 ELSE 0]]
       /\ points = HistoryPoints(D)
  /\ procs = [p \in Procs |-> Idle]
  /\ call = NoCall
  /\ overlaps = 0
  /\ elapsed = 0
  /\ intervals = <<>>
  /\ timers = {}
  /\ nextHandle = 1
  /\ due = {}
  /\ checks = [t \in Tasks |-> 0]
  /\ notifications \in SUBSET OldNotifications
  /\ nextNotif = Cardinality(OldNotifications) + 1

\* ------------------------------------------------------------ storage rules
\* UNIQUE(userId, bookId, checkinDate) of checkins
CheckinsInsertOkNoUnique(u, b, d) == TRUE

CheckinsInsertOk(u, b, d) ==
  ~\E c \in checkins : c.userId = u /\ c.bookId = b /\ c.checkinDate = d

\* UNIQUE(userId, badgeId) of user_badges
UserBadgesInsertOkNoUnique(u, b) == TRUE

UserBadgesInsertOk(u, b) == user_badges[u][b] = 0

\* CHECK(relatedType IN ('checkin', 'badge', 'streak')) of points; NULL passes
PointsInsertOk(relatedType) == relatedType \in {"NULL", "checkin", "badge", "streak"}

PointRow(u, n, reason, relatedId, relatedType) ==
  [userId |-> u, points |-> n, reason |-> reason, relatedId |-> relatedId,
   relatedType |-> relatedType, createdAt |-> today]

\* ------------------------------------------------------------ requests
AllIdle == \A p \in Procs : procs[p].pc = "idle"

\* a request arrives; at most MaxOverlaps requests of a run arrive while another
\* is in flight
Arrive ==
  /\ AllIdle \/ overlaps < MaxOverlaps
  /\ overlaps' = IF AllIdle THEN overlaps ELSE overlaps + 1

Goto(p, pc) == procs' = [procs EXCEPT ![p].pc = pc]

Finish(p, ret) == procs' = [procs EXCEPT ![p].pc = "done", ![p].ret = ret]

\* the response is sent and the request is over
Return(p) ==
  /\ procs[p].pc = "done"
  /\ procs' = [procs EXCEPT ![p] = Idle]
  /\ UNCHANGED <<data, call, sched, notif, overlaps>>

\* ---- CheckInService.createCheckIn
\* SELECT id FROM checkins WHERE userId = ? AND bookId = ? AND checkinDate = ?
existingCheckInNotFound(u, b, d) == FALSE

existingCheckIn(u, b, d) ==
  \E c \in checkins : c.userId = u /\ c.bookId = b /\ c.checkinDate = d

\* the duplicate check of createCheckIn: `if (existingCheckIn) throw`
CreateCheckIn(p, u, b, rt, n) ==
  /\ procs[p].pc = "idle"
  /\ Arrive
  /\ nextId <= maxId
  /\ LET me == [Idle EXCEPT !.op = "createCheckIn", !.userId = u, !.bookId = b,
                            !.today = today, !.readingTime = rt, !.notes = n,
                            !.pointsBefore = user_stats[u].totalPoints]
     IN IF existingCheckIn(u, b, today)
        THEN procs' = [procs EXCEPT ![p] = [me EXCEPT !.pc = "done", !.ret = "conflict"]]
        ELSE procs' = [procs EXCEPT ![p] = [me EXCEPT !.pc = "cc_insert"]]
  /\ UNCHANGED <<data, call, sched, notif>>

\* INSERT INTO checkins (...)
CreateInsert(p) ==
  LET me == procs[p] IN
  /\ me.pc = "cc_insert"
  /\ IF CheckinsInsertOk(me.userId, me.bookId, me.today)
     THEN /\ checkins' = checkins \cup
                {[id |-> nextId, userId |-> me.userId, bookId |-> me.bookId,
                  checkinDate |-> me.today, readingTime |-> me.readingTime,
                  notes |-> me.notes]}
          /\ nextId' = nextId + 1
          /\ procs' = [procs EXCEPT ![p].pc = "us_agg", ![p].id = nextId]
     ELSE /\ Finish(p, "error")
          /\ UNCHANGED <<checkins, nextId>>
  /\ UNCHANGED <<today, maxId, user_stats, user_badges, points, call, sched, notif, overlaps>>

\* ---- CheckInService.updateUserStats
\* SELECT COUNT(DISTINCT bookId), SUM(readingTime) ... FROM checkins
StatsSelect(p) ==
  /\ procs[p].pc = "us_agg"
  /\ procs' = [procs EXCEPT ![p].pc = "us_streak", ![p].agg = StatsQuery(procs[p].userId)]
  /\ UNCHANGED <<data, call, sched, notif, overlaps>>

\* const streak = await this.getCheckInStreak(userId)
StatsStreak(p) ==
  /\ procs[p].pc = "us_streak"
  /\ procs' = [procs EXCEPT ![p].pc = "us_longest",
                 ![p].streak = getCheckInStreak(DistinctDates(procs[p].userId), today)]
  /\ UNCHANGED <<data, call, sched, notif, overlaps>>

\* SELECT longestStreak FROM user_stats WHERE userId = ?
StatsLongest(p) ==
  /\ procs[p].pc = "us_longest"
  /\ procs' = [procs EXCEPT ![p].pc = "us_write",
                 ![p].longest = user_stats[procs[p].userId].longestStreak]
  /\ UNCHANGED <<data, call, sched, notif, overlaps>>

\* the row INSERT OR REPLACE INTO user_stats (userId, totalBooks, totalReadingTime,
\* consecutiveDays, longestStreak, level, updatedAt) writes: the old row is
\* deleted, and totalPoints, which the statement does not name, takes its DEFAULT 0
ReplacedStatsLevelOffByOne(agg, streak, longest) ==
  [totalBooks |-> agg[1], totalReadingTime |-> agg[2], consecutiveDays |-> streak,
   longestStreak |-> Max(streak, longest), totalPoints |-> 0,
   level |-> agg[1] \div 10]

ReplacedStatsKeepLongest(agg, streak, longest) ==
  [totalBooks |-> agg[1], totalReadingTime |-> agg[2], consecutiveDays |-> streak,
   longestStreak |-> longest, totalPoints |-> 0,
   level |-> LevelOf(agg[1])]

ReplacedStats(agg, streak, longest) ==
  [totalBooks |-> agg[1], totalReadingTime |-> agg[2], consecutiveDays |-> streak,
   longestStreak |-> Max(streak, longest), totalPoints |-> 0,
   level |-> LevelOf(agg[1])]

StatsWrite(p) ==
  LET me == procs[p] IN
  /\ me.pc = "us_write"
  /\ user_stats' = [user_stats EXCEPT ![me.userId] =
                      ReplacedStats(me.agg, me.streak, me.longest)]
  /\ IF me.op = "createCheckIn"
     THEN Goto(p, "cab_stats")
     ELSE Finish(p, "true")
  /\ UNCHANGED <<today, checkins, nextId, maxId, user_badges, points, call, sched, notif, overlaps>>

\* ---- CheckInService.checkAndAwardBadges
NotesCount(u) == Cardinality({c \in UserCheckIns(u) : c.notes # ""})

\* the switch of checkAndAwardBadges (notesCount is read only for notes_50)
ShouldAwardFirstCheckinOnly(condition, stats, notesCount) ==
  condition = "first_checkin" /\ stats.totalBooks >= 1

ShouldAward(condition, stats, notesCount) ==
  CASE condition = "first_checkin" -> stats.totalBooks >= 1
    [] condition = "streak_7" -> stats.consecutiveDays >= 7
    [] condition = "streak_30" -> stats.consecutiveDays >= 30
    [] condition = "books_100" -> stats.totalBooks >= 100
    [] condition = "time_100h" -> stats.totalReadingTime >= 6000
    [] condition = "notes_50" -> notesCount >= 50
    [] OTHER -> FALSE

\* the badge at which the for loop next awaits the database, from badge i on:
\* an unearned badge that is notes_50 (a COUNT query) or is to be awarded; 0 if
\* the loop runs to its end
NextStop(i, stats, earned) ==
  LET S == {j \in BadgeIds : /\ j >= i
                             /\ j \notin earned
                             /\ \/ badges[j].condition = "notes_50"
                                \/ ShouldAward(badges[j].condition, stats, 0)}
  IN IF S = {} THEN 0 ELSE CHOOSE j \in S : \A k \in S : j <= k

\* the request of p after the loop has moved on to badge i
LoopFrom(me, i) ==
  LET j == NextStop(i, me.snap, me.earned) IN
  IF j = 0 THEN [me EXCEPT !.pc = "cc_get", !.bi = 0]
  ELSE IF badges[j].condition = "notes_50"
       THEN [me EXCEPT !.pc = "cab_notes", !.bi = j]
       ELSE [me EXCEPT !.pc = "cab_badge", !.bi = j]

\* SELECT * FROM user_stats WHERE userId = ? (and SELECT * FROM badges)
ScanStats(p) ==
  /\ procs[p].pc = "cab_stats"
  /\ procs' = [procs EXCEPT ![p].pc = "cab_earned",
                            ![p].snap = user_stats[procs[p].userId]]
  /\ UNCHANGED <<data, call, sched, notif, overlaps>>

\* SELECT badgeId FROM user_badges WHERE userId = ?, then the loop up to its
\* first await
ScanEarned(p) ==
  LET me == procs[p] IN
  /\ me.pc = "cab_earned"
  /\ procs' = [procs EXCEPT ![p] =
       LoopFrom([me EXCEPT !.earned = {b \in BadgeIds : user_badges[me.userId][b] > 0}], 1)]
  /\ UNCHANGED <<data, call, sched, notif, overlaps>>

\* SELECT COUNT(*) FROM checkins WHERE ... notes != ""
ScanNotes(p) ==
  LET me == procs[p] IN
  /\ me.pc = "cab_notes"
  /\ procs' = [procs EXCEPT ![p] =
       IF ShouldAward("notes_50", me.snap, NotesCount(me.userId))
       THEN [me EXCEPT !.pc = "cab_badge"]
       ELSE LoopFrom(me, me.bi + 1)]
  /\ UNCHANGED <<data, call, sched, notif, overlaps>>

\* INSERT INTO user_badges (userId, badgeId); a UNIQUE violation rejects, and
\* the rejection leaves createCheckIn
ScanInsertBadge(p) ==
  LET me == procs[p] IN
  /\ me.pc = "cab_badge"
  /\ IF UserBadgesInsertOk(me.userId, me.bi)
     THEN /\ user_badges' = [user_badges EXCEPT ![me.userId][me.bi] = @ + 1]
          /\ Goto(p, "cab_points")
     ELSE /\ Finish(p, "error")
          /\ UNCHANGED user_badges
  /\ UNCHANGED <<today, checkins, nextId, maxId, user_stats, points, call, sched, notif, overlaps>>

\* INSERT INTO points (userId, points, reason, relatedId, relatedType)
ScanInsertPoints(p) ==
  LET me == procs[p] IN
  /\ me.pc = "cab_points"
  /\ points' = points (+) SetToBag({PointRow(me.userId, badges[me.bi].points,
                                             "badge", me.bi, "badge")})
  /\ Goto(p, "cab_total")
  /\ UNCHANGED <<today, checkins, nextId, maxId, user_stats, user_badges, call, sched, notif, overlaps>>

\* UPDATE user_stats SET totalPoints = totalPoints + ?, then the loop goes on
ScanUpdateTotal(p) ==
  LET me == procs[p] IN
  /\ me.pc = "cab_total"
  /\ user_stats' = [user_stats EXCEPT ![me.userId].totalPoints = @ + badges[me.bi].points]
  /\ procs' = [procs EXCEPT ![p] = LoopFrom(me, me.bi + 1)]
  /\ UNCHANGED <<today, checkins, nextId, maxId, user_badges, points, call, sched, notif, overlaps>>

\* getCheckInById(result.lastID) at the end of createCheckIn
CreateGet(p) ==
  /\ procs[p].pc = "cc_get"
  /\ IF \E c \in checkins : c.id = procs[p].id
     THEN Finish(p, "ok")
     ELSE Finish(p, "error")
  /\ UNCHANGED <<data, call, sched, notif, overlaps>>

\* ---- CheckInService.deleteCheckIn
\* the negation of `!checkIn || checkIn.userId !== userId`
checkInOfAnyUser(id, u) == \E c \in checkins : c.id = id

checkInOwnedBy(id, u) == \E c \in checkins : c.id = id /\ c.userId = u

\* SELECT userId FROM checkins WHERE id = ?
DeleteCheckIn(p, id, u) ==
  /\ procs[p].pc = "idle"
  /\ Arrive
  /\ LET me == [Idle EXCEPT !.op = "deleteCheckIn", !.userId = u, !.id = id]
     IN IF checkInOwnedBy(id, u)
        THEN procs' = [procs EXCEPT ![p] = [me EXCEPT !.pc = "dc_delete"]]
        ELSE procs' = [procs EXCEPT ![p] = [me EXCEPT !.pc = "done", !.ret = "false"]]
  /\ UNCHANGED <<data, call, sched, notif>>

\* DELETE FROM checkins WHERE id = ?; updateUserStats only if a row went
DeleteRow(p) ==
  LET me == procs[p] IN
  /\ me.pc = "dc_delete"
  /\ checkins' = {c \in checkins : c.id # me.id}
  /\ IF \E c \in checkins : c.id = me.id
     THEN Goto(p, "us_agg")
     ELSE Finish(p, "false")
  /\ UNCHANGED <<today, nextId, maxId, user_stats, user_badges, points, call, sched, notif, overlaps>>

\* ---- CheckInService.updateCheckIn
\* UPDATE checkins SET <allowed fields> WHERE id = ?: PUT /checkins/:id may set
\* readingTime and notes; a field left undefined (-1, "undefined") is not set,
\* and with no field to set there is no UPDATE
UpdateCheckIn(p, id, rt, n) ==
  /\ procs[p].pc = "idle"
  /\ Arrive
  /\ checkins' = {IF c.id = id
                  THEN [c EXCEPT !.readingTime = IF rt = -1 THEN @ ELSE rt,
                                 !.notes = IF n = "undefined" THEN @ ELSE n]
                  ELSE c : c \in checkins}
  /\ procs' = [procs EXCEPT ![p] = [Idle EXCEPT !.op = "updateCheckIn", !.id = id,
                                                !.pc = "uc_get"]]
  /\ UNCHANGED <<today, nextId, maxId, user_stats, user_badges, points, call, sched, notif>>

\* return this.getCheckInById(id)
UpdateGet(p) ==
  /\ procs[p].pc = "uc_get"
  /\ IF \E c \in checkins : c.id = procs[p].id
     THEN Finish(p, "ok")
     ELSE Finish(p, "null")
  /\ UNCHANGED <<data, call, sched, notif, overlaps>>

\* ---- GameService.addPoints
\* INSERT INTO points (...); a CHECK violation rejects: awardBadge catches it and
\* returns false, updateLevel and completeDailyChallenge let it through
AfterAward(me, awarded) ==
  IF Len(me.queue) <= 1
  THEN [me EXCEPT !.pc = "done", !.ret = "scanned", !.queue = <<>>, !.bi = 0,
                  !.current = @ + (IF awarded THEN 1 ELSE 0)]
  ELSE [me EXCEPT !.pc = "ab_existing", !.queue = Tail(@), !.bi = me.queue[2],
                  !.current = @ + (IF awarded THEN 1 ELSE 0)]

AddPointsInsert(p) ==
  LET me == procs[p] IN
  /\ me.pc = "ap_insert"
  /\ IF PointsInsertOk(me.relatedType)
     THEN /\ points' = points (+) SetToBag({PointRow(me.userId, me.pts, me.reason,
                                                      me.bi, me.relatedType)})
          /\ Goto(p, "ap_update")
     ELSE /\ UNCHANGED points
          /\ procs' = [procs EXCEPT ![p] =
               IF me.op = "checkAndAwardBadges" THEN AfterAward(me, FALSE)
               ELSE [me EXCEPT !.pc = "done", !.ret = "error"]]
  /\ UNCHANGED <<today, checkins, nextId, maxId, user_stats, user_badges, call, sched, notif, overlaps>>

\* UPDATE user_stats SET totalPoints = totalPoints + ? WHERE userId = ?
AddPointsUpdate(p) ==
  LET me == procs[p] IN
  /\ me.pc = "ap_update"
  /\ user_stats' = [user_stats EXCEPT ![me.userId].totalPoints = @ + me.pts]
  /\ procs' = [procs EXCEPT ![p] =
       IF me.op = "checkAndAwardBadges" THEN AfterAward(me, TRUE)
       ELSE [me EXCEPT !.pc = "done", !.ret = "true"]]
  /\ UNCHANGED <<today, checkins, nextId, maxId, user_badges, points, call, sched, notif, overlaps>>

\* ---- GameService.getBadgeProgress
getBadgeProgressMinutes(condition, stats, notesCount) ==
  LET ct == CASE condition = "first_checkin" ->
                   <<IF stats.totalBooks > 0 THEN 1 ELSE 0, 1>>
              [] condition = "streak_7" -> <<stats.consecutiveDays, 7>>
              [] condition = "streak_30" -> <<stats.consecutiveDays, 30>>
              [] condition = "books_100" -> <<stats.totalBooks, 100>>
              [] condition = "time_100h" -> <<stats.totalReadingTime, 100>>
              [] condition = "notes_50" -> <<notesCount, 50>>
              [] OTHER -> <<0, 1>>
  IN [current |-> ct[1], target |-> ct[2],
      percentage |-> Min((ct[1] * 100) \div ct[2], 100)]

getBadgeProgress(condition, stats, notesCount) ==
  LET ct == CASE condition = "first_checkin" ->
                   <<IF stats.totalBooks > 0 THEN 1 ELSE 0, 1>>
              [] condition = "streak_7" -> <<stats.consecutiveDays, 7>>
              [] condition = "streak_30" -> <<stats.consecutiveDays, 30>>
              [] condition = "books_100" -> <<stats.totalBooks, 100>>
              [] condition = "time_100h" -> <<stats.totalReadingTime \div 60, 100>>
              [] condition = "notes_50" -> <<notesCount, 50>>
              [] OTHER -> <<0, 1>>
  IN [current |-> ct[1], target |-> ct[2],
      percentage |-> Min((ct[1] * 100) \div ct[2], 100)]

\* ---- GameService.checkAndAwardBadges (POST /game/badges/check)
\* getAvailableBadges: SELECT badgeId FROM user_badges, then the badges not in it
CheckAndAwardBadges(p, u) ==
  /\ procs[p].pc = "idle"
  /\ Arrive
  /\ LET avail == SelectSeq(getAllBadges, LAMBDA b : user_badges[u][b] = 0)
         me == [Idle EXCEPT !.op = "checkAndAwardBadges", !.userId = u, !.queue = avail]
     IN procs' = [procs EXCEPT ![p] =
          IF avail = <<>> THEN [me EXCEPT !.pc = "done", !.ret = "scanned"]
          ELSE [me EXCEPT !.pc = "ab_existing", !.bi = Head(avail)]]
  /\ UNCHANGED <<data, call, sched, notif>>

\* awardBadge: SELECT id FROM user_badges WHERE userId = ? AND badgeId = ?
AwardExisting(p) ==
  LET me == procs[p] IN
  /\ me.pc = "ab_existing"
  /\ procs' = [procs EXCEPT ![p] =
       IF user_badges[me.userId][me.bi] > 0 THEN AfterAward(me, FALSE)
       ELSE [me EXCEPT !.pc = "ab_stats"]]
  /\ UNCHANGED <<data, call, sched, notif, overlaps>>

\* the request after getBadgeProgress returned: progress.percentage < 100 returns false
AfterProgress(me, notesCount) ==
  IF getBadgeProgress(badges[me.bi].condition, me.snap, notesCount).percentage < 100
  THEN AfterAward(me, FALSE)
  ELSE [me EXCEPT !.pc = "ab_insert"]

\* getBadgeProgress: getUserStats(userId)
AwardStats(p) ==
  /\ procs[p].pc = "ab_stats"
  /\ LET me == [procs[p] EXCEPT !.snap = user_stats[procs[p].userId]]
     IN procs' = [procs EXCEPT ![p] =
          IF badges[me.bi].condition = "notes_50" THEN [me EXCEPT !.pc = "ab_notes"]
          ELSE AfterProgress(me, 0)]
  /\ UNCHANGED <<data, call, sched, notif, overlaps>>

\* getBadgeProgress: SELECT COUNT(*) FROM checkins WHERE ... notes != ""
AwardNotes(p) ==
  /\ procs[p].pc = "ab_notes"
  /\ procs' = [procs EXCEPT ![p] = AfterProgress(procs[p], NotesCount(procs[p].userId))]
  /\ UNCHANGED <<data, call, sched, notif, overlaps>>

\* awardBadge: INSERT INTO user_badges; the catch turns a rejection into false
AwardInsert(p) ==
  LET me == procs[p] IN
  /\ me.pc = "ab_insert"
  /\ IF UserBadgesInsertOk(me.userId, me.bi)
     THEN /\ user_badges' = [user_badges EXCEPT ![me.userId][me.bi] = @ + 1]
          /\ procs' = [procs EXCEPT ![p] =
               IF badges[me.bi].points > 0
               THEN [me EXCEPT !.pc = "ap_insert", !.pts = badges[me.bi].points,
                               !.reason = "badge", !.relatedType = "badge"]
               ELSE AfterAward(me, TRUE)]
     ELSE /\ UNCHANGED user_badges
          /\ procs' = [procs EXCEPT ![p] = AfterAward(me, FALSE)]
  /\ UNCHANGED <<today, checkins, nextId, maxId, user_stats, points, call, sched, notif, overlaps>>

\* ---- GameService.updateLevel (POST /game/level/check)
\* getUserStats, then UPDATE user_stats SET level = ? and addPoints(..., 'level_up')
UpdateLevel(p, u) ==
  LET me == procs[p] IN
  IF me.pc = "idle"
  THEN /\ Arrive
       /\ procs' = [procs EXCEPT ![p] =
            LET st == user_stats[u]
                r == [Idle EXCEPT !.op = "updateLevel", !.userId = u, !.snap = st]
            IN IF LevelOf(st.totalBooks) > st.level
               THEN [r EXCEPT !.pc = "ul_update", !.bi = LevelOf(st.totalBooks)]
               ELSE [r EXCEPT !.pc = "done", !.ret = "false"]]
       /\ UNCHANGED <<data, call, sched, notif>>
  ELSE /\ me.pc = "ul_update"
       /\ me.userId = u
       /\ user_stats' = [user_stats EXCEPT ![u].level = me.bi]
       /\ procs' = [procs EXCEPT ![p].pc = "ap_insert", ![p].pts = me.bi * 50,
                                 ![p].reason = "level_up", ![p].relatedType = "level_up"]
       /\ UNCHANGED <<today, checkins, nextId, maxId, user_badges, points, call, sched, notif, overlaps>>

\* ---- GameService.getDailyChallenge / completeDailyChallenge
ChallengeRows(u, d) ==
  {r \in BagToSet(points) :
     r.userId = u /\ r.reason = "daily_challenge" /\ r.createdAt = d}

\* SELECT SUM(readingTime) FROM checkins WHERE userId = ? AND DATE(checkinDate) = ?
TodayReading(u, d) == SumReadingTime({c \in UserCheckIns(u) : c.checkinDate = d})

\* !challenge || challenge.completed || challenge.current < challenge.target
ChallengeRefusedNoCompletedTest(completed, current) == current < 30

ChallengeRefused(completed, current) == completed \/ current < 30

\* getDailyChallenge: SELECT id FROM points WHERE ... reason = ... AND DATE(createdAt) = ?
CompleteDailyChallenge(p, u) ==
  /\ procs[p].pc = "idle"
  /\ Arrive
  /\ procs' = [procs EXCEPT ![p] =
       [Idle EXCEPT !.op = "completeDailyChallenge", !.userId = u, !.today = today,
                    !.pc = "cdc_reading", !.completed = ChallengeRows(u, today) # {}]]
  /\ UNCHANGED <<data, call, sched, notif>>

\* getDailyChallenge: today's reading time; then the test of completeDailyChallenge
ChallengeReading(p) ==
  /\ procs[p].pc = "cdc_reading"
  /\ LET me == [procs[p] EXCEPT
                  !.current = TodayReading(procs[p].userId, procs[p].today)]
     IN procs' = [procs EXCEPT ![p] =
          IF ChallengeRefused(me.completed, me.current)
          THEN [me EXCEPT !.pc = "done", !.ret = "false"]
          ELSE [me EXCEPT !.pc = "ap_insert", !.pts = 50, !.reason = "daily_challenge",
                          !.relatedType = "NULL"]]
  /\ UNCHANGED <<data, call, sched, notif, overlaps>>

\* ---- the clock
AdvanceDay ==
  /\ today < MaxDay
  /\ AllIdle
  /\ today' = today + 1
  /\ UNCHANGED <<checkins, nextId, maxId, user_stats, user_badges, points, procs, call, sched, notif, overlaps>>

\* ---- SchedulerService
\* what a timer's callback does when it runs: past its hour gate it calls the
\* task's check of NotificationService (counted here)
RunTask(task) ==
  IF hour = GateHour(task) THEN [checks EXCEPT ![task] = @ + 1] ELSE checks

\* the timers `this.intervals.forEach(interval => clearInterval(interval))` clears
ClearedFirstOnly(ivs) == IF ivs = <<>> THEN {} ELSE {ivs[1]}

Cleared(ivs) == {ivs[i] : i \in DOMAIN ivs}

\* `this.intervals.push(interval)` of each of the three start* methods
PushedFirstOnly(ivs, new) == ivs \o <<new[1]>>

Pushed(ivs, new) == ivs \o new

\* start(): three setInterval timers, each pushed on intervals;
\* startDailyReminders also runs its callback at once
Start ==
  /\ nextHandle + 2 <= 3 * MaxStarts
  /\ LET new == [i \in 1..3 |-> [id |-> nextHandle + i - 1, task |-> TaskOrder[i]]]
     IN /\ intervals' = Pushed(intervals, new)
        /\ timers' = timers \cup {new[i] : i \in 1..3}
  /\ nextHandle' = nextHandle + 3
  /\ checks' = RunTask("dailyReminders")
  /\ UNCHANGED <<data, procs, call, notif, overlaps, hour, elapsed, due>>

\* stop(): clearInterval on every handle held, then intervals = []
Stop ==
  /\ timers' = timers \ Cleared(intervals)
  /\ due' = due \ Cleared(intervals)
  /\ intervals' = <<>>
  /\ UNCHANGED <<data, procs, call, notif, overlaps, hour, elapsed, nextHandle, checks>>

\* an interval timer fires (once in each hour after the one it was set in)
Tick(h) ==
  /\ h \in timers
  /\ h \in due
  /\ due' = due \ {h}
  /\ checks' = RunTask(h.task)
  /\ UNCHANGED <<data, procs, call, notif, overlaps, hour, elapsed, intervals, timers, nextHandle>>

\* getStatus()
getStatus == [active |-> Len(intervals) > 0, taskCount |-> Len(intervals)]

\* an hour goes by: every timer still set comes due again
AdvanceHour ==
  /\ elapsed < MaxHours
  /\ due = {}
  /\ elapsed' = elapsed + 1
  /\ hour' = (hour + 1) % 24
  /\ today' = IF hour = 23 THEN today + 1 ELSE today
  /\ due' = timers
  /\ UNCHANGED <<checkins, nextId, maxId, user_stats, user_badges, points, procs, call, notif,
                 overlaps, intervals, timers, nextHandle, checks>>

\* ---- NotificationService
RECURSIVE SortAsc(_)
SortAsc(S) ==
  IF S = {} THEN <<>>
  ELSE LET m == CHOOSE x \in S : \A y \in S : x <= y
       IN <<m>> \o SortAsc(S \ {m})

\* the inactiveUsers query: children with no check-in on day d and a check-in
\* dated yesterdayStr or later
inactiveUsers(d) ==
  SortAsc({u \in Users :
             /\ role(u) = "child"
             /\ ~\E c \in UserCheckIns(u) : c.checkinDate = d
             /\ \E c2 \in UserCheckIns(u) : c2.checkinDate >= d - 1})

\* SELECT id FROM notifications WHERE userId = ? AND type = 'reminder'
\* AND DATE(createdAt) = ? AND title LIKE ...
existingReminderNone(u, d, title) == {}

existingReminder(u, d, title) ==
  {n \in notifications :
     n.userId = u /\ n.type = "reminder" /\ n.createdAt = d /\ n.title = title}

\* the inactiveChildren query: per parent-child relationship, the check-ins of
\* the child that are dated before threeDaysAgoStr (WHERE), grouped; a child
\* without any check-in joins as one row of NULLs
RECURSIVE RelSeq(_)
RelSeq(R) ==
  IF R = {} THEN <<>>
  ELSE LET r == CHOOSE x \in R : \A y \in R :
                  x.childId < y.childId \/ (x.childId = y.childId /\ x.parentId <= y.parentId)
       IN <<r>> \o RelSeq(R \ {r})

OldDates(u, d) == {c.checkinDate : c \in {x \in UserCheckIns(u) : x.checkinDate < d - 3}}

inactiveChildren(d) ==
  LET R == {r \in user_relationships :
              /\ role(r.childId) = "child"
              /\ r.relationshipType = "parent-child"
              /\ UserCheckIns(r.childId) = {} \/ OldDates(r.childId, d) # {}}
      row(r) == [childId |-> r.childId, parentId |-> r.parentId,
                 never |-> OldDates(r.childId, d) = {},
                 lastCheckin |-> IF OldDates(r.childId, d) = {} THEN 0
                                 ELSE MaxOf(OldDates(r.childId, d))]
      seq == RelSeq(R)
  IN [i \in DOMAIN seq |-> row(seq[i])]

\* createNotification: INSERT INTO notifications (...)
NotificationRow(u, title, days) ==
  [id |-> nextNotif, userId |-> u, type |-> "reminder", title |-> title,
   isRead |-> FALSE, createdAt |-> today, days |-> days]

\* a run of one of the service's checks is over: what it was and how many
\* notifications it created or deleted
Completed(op, n) == [op |-> op, dates |-> {}, today |-> today, ret |-> n]

\* the inactive-today scan after it has dealt with a user: q the users left
ReadingNext(me, q) ==
  IF q # <<>> THEN [me EXCEPT !.pc = "rr_existing", !.queue = q, !.userId = Head(q)]
  ELSE IF me.op = "triggerReadingReminders"
       THEN [me EXCEPT !.pc = "pr_select", !.queue = <<>>, !.userId = 0]
       ELSE [me EXCEPT !.pc = "done", !.ret = "sent", !.queue = <<>>, !.userId = 0]

ReadingCall(me, q) ==
  IF q = <<>> THEN Completed("checkAndSendReadingReminders", me.current) ELSE call

\* checkAndSendReadingReminders, called by the 8 o'clock tick, by
\* triggerDailyReminders or (op = "triggerReadingReminders") by the teacher's
\* endpoint, which goes on to checkAndSendParentReminders: the inactiveUsers query
CheckAndSendReadingReminders(p, op) ==
  /\ procs[p].pc = "idle"
  /\ Arrive
  /\ nextNotif <= Cardinality(OldNotifications) + MaxNotifs
  /\ LET me == [Idle EXCEPT !.op = op, !.today = today]
     IN /\ procs' = [procs EXCEPT ![p] = ReadingNext(me, inactiveUsers(today))]
        /\ call' = ReadingCall(me, inactiveUsers(today))
  /\ UNCHANGED <<data, sched, notif>>

\* the existingReminder query of the inactive-today scan
ReadingExisting(p) ==
  LET me == procs[p] IN
  /\ me.pc = "rr_existing"
  /\ IF existingReminder(me.userId, me.today, "reading") # {}
     THEN /\ procs' = [procs EXCEPT ![p] = ReadingNext(me, Tail(me.queue))]
          /\ call' = ReadingCall(me, Tail(me.queue))
     ELSE /\ Goto(p, "rr_insert")
          /\ UNCHANGED call
  /\ UNCHANGED <<data, overlaps, sched, notif>>

\* sendReadingReminder
ReadingInsert(p) ==
  LET me == [procs[p] EXCEPT !.current = @ + 1] IN
  /\ procs[p].pc = "rr_insert"
  /\ notifications' = notifications \cup {NotificationRow(me.userId, "reading", 0)}
  /\ nextNotif' = nextNotif + 1
  /\ procs' = [procs EXCEPT ![p] = ReadingNext(me, Tail(me.queue))]
  /\ call' = ReadingCall(me, Tail(me.queue))
  /\ UNCHANGED <<data, overlaps, sched>>

\* the inactive-N-days scan after it has dealt with a relationship
ParentNext(me, q) ==
  IF q # <<>> THEN [me EXCEPT !.pc = "pr_existing", !.queue = q, !.userId = Head(q).parentId]
  ELSE [me EXCEPT !.pc = "done", !.ret = "sent", !.queue = <<>>, !.userId = 0]

ParentCall(me, q) ==
  IF q = <<>> THEN Completed("checkAndSendParentReminders", me.current) ELSE call

\* checkAndSendParentReminders, called by the 9 o'clock tick, by
\* triggerParentReminders or next in the teacher's endpoint: the
\* inactiveChildren query
CheckAndSendParentReminders(p) ==
  /\ \/ /\ procs[p].pc = "idle"
        /\ Arrive
        /\ nextNotif <= Cardinality(OldNotifications) + MaxNotifs
     \/ /\ procs[p].pc = "pr_select"
        /\ UNCHANGED overlaps
  /\ LET me == IF procs[p].pc = "idle"
               THEN [Idle EXCEPT !.op = "checkAndSendParentReminders"]
               ELSE [procs[p] EXCEPT !.current = 0]
     IN /\ procs' = [procs EXCEPT ![p] = ParentNext(me, inactiveChildren(today))]
        /\ call' = ParentCall(me, inactiveChildren(today))
  /\ UNCHANGED <<data, sched, notif>>

\* the existingReminder query of the inactive-N-days scan (today is read anew)
ParentExisting(p) ==
  LET me == procs[p] IN
  /\ me.pc = "pr_existing"
  /\ IF existingReminder(me.userId, today, "parent") # {}
     THEN /\ procs' = [procs EXCEPT ![p] = ParentNext(me, Tail(me.queue))]
          /\ call' = ParentCall(me, Tail(me.queue))
     ELSE /\ Goto(p, "pr_insert")
          /\ UNCHANGED call
  /\ UNCHANGED <<data, overlaps, sched, notif>>

\* sendParentReminder with daysSinceLastCheckin (7 for a child that never
\* checked in)
ParentInsert(p) ==
  LET me == [procs[p] EXCEPT !.current = @ + 1]
      child == Head(me.queue)
  IN
  /\ procs[p].pc = "pr_insert"
  /\ notifications' = notifications \cup
       {NotificationRow(me.userId, "parent",
                        IF child.never THEN 7 ELSE today - child.lastCheckin)}
  /\ nextNotif' = nextNotif + 1
  /\ procs' = [procs EXCEPT ![p] = ParentNext(me, Tail(me.queue))]
  /\ call' = ParentCall(me, Tail(me.queue))
  /\ UNCHANGED <<data, overlaps, sched>>

\* cleanupOldNotifications(daysToKeep): DELETE FROM notifications WHERE
\* createdAt < cutoffDateStr; a CURRENT_TIMESTAMP of the cutoff day ('... hh:mm:ss')
\* sorts before the cutoff's ISO string ('...Thh:mm:ss.sssZ')
cleanupOldNotifications(daysToKeep) ==
  /\ notifications' = {n \in notifications : n.createdAt > today - daysToKeep}
  /\ call' = Completed("cleanupOldNotifications",
                       Cardinality({n \in notifications : n.createdAt <= today - daysToKeep}))
  /\ UNCHANGED <<data, procs, overlaps, sched, nextNotif>>

\* deleteNotification: DELETE FROM notifications WHERE id = ? AND userId = ?
deleteNotification(notificationId, u) ==
  /\ notifications' = {n \in notifications : ~(n.id = notificationId /\ n.userId = u)}
  /\ call' = Completed("deleteNotification",
                       Cardinality({n \in notifications : n.id = notificationId /\ n.userId = u}))
  /\ UNCHANGED <<data, procs, overlaps, sched, nextNotif>>

\* ------------------------------------------------------------ specifications
\* the check-in ids requests name: those of this run, and the one before them
Targets == (maxId - MaxCheckIns)..maxId

Requests(p, U) ==
  \/ \E u \in U, b \in BookChoices, i \in CheckInInputs :
       CreateCheckIn(p, u, b, i[1], i[2])
  \/ CreateInsert(p)
  \/ StatsSelect(p)
  \/ StatsStreak(p)
  \/ StatsLongest(p)
  \/ StatsWrite(p)
  \/ ScanStats(p)
  \/ ScanEarned(p)
  \/ ScanNotes(p)
  \/ ScanInsertBadge(p)
  \/ ScanInsertPoints(p)
  \/ ScanUpdateTotal(p)
  \/ CreateGet(p)
  \/ \E id \in Targets, u \in U : DeleteCheckIn(p, id, u)
  \/ DeleteRow(p)
  \/ \E id \in Targets, i \in UpdateInputs : UpdateCheckIn(p, id, i[1], i[2])
  \/ UpdateGet(p)
  \/ \E u \in U : CheckAndAwardBadges(p, u)
  \/ AwardExisting(p)
  \/ AwardStats(p)
  \/ AwardNotes(p)
  \/ AwardInsert(p)
  \/ AddPointsInsert(p)
  \/ AddPointsUpdate(p)
  \/ \E u \in U : UpdateLevel(p, u)
  \/ \E u \in U : CompleteDailyChallenge(p, u)
  \/ ChallengeReading(p)
  \/ Return(p)

\* requests of all clients, interleaved at every storage call
Next == (\E p \in Procs : Requests(p, Clients)) \/ AdvanceDay

Spec == Init /\ [][Next]_vars

\* one request at a time: each runs to its response before the next arrives
NextSeq == Requests(1, Clients) \/ AdvanceDay

SpecSeq == Init /\ [][NextSeq]_vars

\* the same, for a user who has checked in SeedBooks distinct books before
SpecLevel == InitSeeded /\ [][NextSeq]_vars

\* one request at a time, of any user
NextOwner == Requests(1, Users) \/ AdvanceDay

SpecOwner == Init /\ [][NextOwner]_vars

\* two users at once, each with requests of their own
NextCross == Requests(1, {1}) \/ Requests(2, {2})

SpecCross == Init /\ [][NextCross]_vars

\* ---- the two badge evaluators, on any badge and any stats
\* what the check-in path decides for an unearned badge and the points it books:
\* the switch, then the three statements under `if (shouldAward)`
ScanDecision(badge, stats, notesCount) ==
  LET shouldAward == ShouldAward(badge.condition, stats, notesCount) IN
  [earned |-> shouldAward, credited |-> IF shouldAward THEN badge.points ELSE 0]

\* what awardBadge decides for an unearned badge and the points it books:
\* `progress.percentage < 100` returns false, addPoints only `if (badge.points > 0)`
AwardDecision(badge, stats, notesCount) ==
  LET progress == getBadgeProgress(badge.condition, stats, notesCount) IN
  IF progress.percentage < 100 THEN [earned |-> FALSE, credited |-> 0]
  ELSE [earned |-> TRUE, credited |-> IF badge.points > 0 THEN badge.points ELSE 0]

\* the badges of the table and badges of a condition tag neither switch knows
EvalBadges ==
  {badges[i] : i \in BadgeIds}
    \cup {[id |-> 0, condition |-> "unknown", points |-> pts] : pts \in {0, 10}}

\* user_stats values on both sides of every threshold
EvalStats ==
  [totalBooks : {0, 1, 99, 100}, totalReadingTime : {5999, 6000},
   consecutiveDays : {6, 7, 29, 30}, longestStreak : {30},
   totalPoints : {0}, level : {1}]

EvalCall ==
  /\ \E badge \in EvalBadges, stats \in EvalStats, notesCount \in {49, 50} :
       call' = [op |-> "awardBadge", dates |-> {}, today |-> today,
                ret |-> [badge |-> badge, stats |-> stats, notesCount |-> notesCount,
                         scan |-> ScanDecision(badge, stats, notesCount),
                         award |-> AwardDecision(badge, stats, notesCount)]]
  /\ UNCHANGED <<data, procs, overlaps, sched, notif>>

SpecEval == Init /\ [][EvalCall]_vars

\* the scheduler alone: start and stop calls, timer ticks and the clock
NextScheduler == Start \/ Stop \/ (\E h \in timers : Tick(h)) \/ AdvanceHour

SpecScheduler == InitScheduler /\ [][NextScheduler]_vars

\* the reminder scans and the notification requests
NotifyRequests(p) ==
  \/ \E op \in {"checkAndSendReadingReminders", "triggerReadingReminders"} :
       CheckAndSendReadingReminders(p, op)
  \/ ReadingExisting(p)
  \/ ReadingInsert(p)
  \/ CheckAndSendParentReminders(p)
  \/ ParentExisting(p)
  \/ ParentInsert(p)
  \/ Return(p)

NotifyCalls ==
  \/ cleanupOldNotifications(DaysToKeep)
  \/ \E id \in 1..(nextNotif - 1), u \in Users : deleteNotification(id, u)

\* one at a time
NextNotifySeq == NotifyRequests(1) \/ (AllIdle /\ NotifyCalls)

SpecNotifySeq == InitNotify /\ [][NextNotifySeq]_vars

\* interleaved at every storage call
NextNotify == (\E p \in Procs : NotifyRequests(p)) \/ NotifyCalls

SpecNotify == InitNotify /\ [][NextNotify]_vars

\* GET /checkins/streak for any history of check-in dates
StreakCall ==
  /\ \E t \in 1..MaxDate : \E ds \in SUBSET (1..t) :
       call' = [op |-> "getCheckInStreak", dates |-> ds, today |-> t,
                ret |-> getCheckInStreak(ds, t)]
  /\ UNCHANGED <<data, procs, overlaps, sched, notif>>

SpecStreak == Init /\ [][StreakCall]_vars

\* ------------------------------------------------------------ properties
RECURSIVE SumPoints(_, _)
SumPoints(rows, bag) ==
  IF rows = {} THEN 0
  ELSE LET r == CHOOSE x \in rows : TRUE
       IN r.points * CopiesIn(r, bag) + SumPoints(rows \ {r}, bag)

\* the sum of a user's rows of the points table
LedgerSum(u) == SumPoints({r \in BagToSet(points) : r.userId = u}, points)

\* how many challenge-completed rows a user has that are dated d
RECURSIVE CountCopies(_, _)
CountCopies(rows, bag) ==
  IF rows = {} THEN 0
  ELSE LET r == CHOOSE x \in rows : TRUE
       IN CopiesIn(r, bag) + CountCopies(rows \ {r}, bag)

ChallengeCount(u, d) == CountCopies(ChallengeRows(u, d), points)

Days == 0..(MaxDay + 1)

\* C1: whenever no request is in flight, each user's UserStats.totalPoints equals
\* the sum of the amounts of that user's Point ledger rows.
C1_PointsConservation ==
  AllIdle => \A u \in Users : user_stats[u].totalPoints = LedgerSum(u)

\* C2: for every user and catalog badge there are 0 or 1 UserBadge rows, in
\* every interleaving of the check-in scan and the on-demand scan.
C2_BadgeAtMostOnce ==
  \A u \in Users : \A b \in BadgeIds : user_badges[u][b] <= 1

\* a check-in scan is about to insert a badge that an interleaved on-demand scan
\* has inserted since the check-in scan read the earned badges
C2_Witness ==
  \E p \in Procs, q \in Procs :
    /\ p # q
    /\ procs[p].pc = "cab_badge"
    /\ procs[q].op = "checkAndAwardBadges"
    /\ procs[q].pc = "ap_insert"
    /\ procs[q].userId = procs[p].userId
    /\ procs[q].bi = procs[p].bi
    /\ user_badges[procs[p].userId][procs[p].bi] = 1

\* the length of the run of consecutive dates of ds that ends at e
RECURSIVE RunEndingAt(_, _)
RunEndingAt(ds, e) == IF e \notin ds THEN 0 ELSE 1 + RunEndingAt(ds, e - 1)

MaximalRun(ds, t) == IF t \in ds THEN RunEndingAt(ds, t) ELSE RunEndingAt(ds, t - 1)

\* C3: getCheckInStreak returns the length of the maximal run of consecutive
\* calendar dates that ends at today or at yesterday; a gap ends the count.
C3_StreakContinuity ==
  call.op = "getCheckInStreak" => call.ret = MaximalRun(call.dates, call.today)

\* C4: the stored longestStreak never decreases, and is at least the
\* consecutiveDays stored with it, in every interleaving of a user's requests.
C4_LongestStreakMonotone ==
  [][\A u \in Users :
       /\ user_stats'[u].longestStreak >= user_stats[u].longestStreak
       /\ user_stats'[u].longestStreak >= user_stats'[u].consecutiveDays]_vars

\* C5: with one request at a time, completeDailyChallenge returns true and leaves
\* exactly one 50-point challenge row dated today iff today's reading time is at
\* least 30 and there was no such row; otherwise it returns false and changes
\* nothing.  So a day never has two challenge rows, and after a successful claim
\* getDailyChallenge finds the day completed.
C5_Returned ==
  \A p \in Procs :
    LET me == procs[p] IN
    (me.op = "completeDailyChallenge" /\ me.pc = "done") =>
      IF me.ret = "true"
      THEN /\ TodayReading(me.userId, me.today) >= 30
           /\ ChallengeRows(me.userId, me.today) =
                {[userId |-> me.userId, points |-> 50, reason |-> "daily_challenge",
                  relatedId |-> 0, relatedType |-> "NULL", createdAt |-> me.today]}
      ELSE /\ me.ret = "false"
           /\ \/ TodayReading(me.userId, me.today) < 30
              \/ ChallengeRows(me.userId, me.today) # {}

C5_OnlyGrantWrites ==
  \A p \in Procs :
    ( /\ procs'[p].op = "completeDailyChallenge"
      /\ procs'[p].pc # "ap_update"
      /\ ~(procs'[p].pc = "done" /\ procs'[p].ret = "true") )
    => UNCHANGED data

C5_ChallengeIdempotent ==
  /\ [](C5_Returned /\ \A u \in Users : \A d \in Days : ChallengeCount(u, d) <= 1)
  /\ [][C5_OnlyGrantWrites]_vars

\* a second claim on a day whose target is met and whose reward is granted
\* has returned false
C5_Witness ==
  \E p \in Procs :
    /\ procs[p].op = "completeDailyChallenge"
    /\ procs[p].pc = "done"
    /\ procs[p].ret = "false"
    /\ TodayReading(procs[p].userId, procs[p].today) >= 30
    /\ ChallengeCount(procs[p].userId, procs[p].today) = 1

\* C6: the ledger holds at most one challenge-completed row per user and day,
\* in every interleaving of concurrent completeDailyChallenge calls.
C6_OneRewardPerDay ==
  \A u \in Users : \A d \in Days : ChallengeCount(u, d) <= 1

\* C7: the stored level is floor(totalBooks / 10) + 1 of the stored totalBooks.
C7_LevelFormula ==
  \A u \in Users : user_stats[u].level = (user_stats[u].totalBooks \div 10) + 1

\* a check-in has brought the distinct-book count to 10 and its recompute is stored
C7_Witness ==
  /\ AllIdle
  /\ user_stats[1].totalBooks = 10
  /\ user_stats[1].level = 2

\* C8: once a recompute has raised the stored level above its earlier value, the
\* ledger has the level-up bonus of newLevel * 50 (100 points for level 2).
C8_LevelUpBonus ==
  AllIdle =>
    \A u \in Users :
      user_stats[u].level = 2 =>
        \E r \in BagToSet(points) :
          r.userId = u /\ r.reason = "level_up" /\ r.points = 100

\* C9: no step of a deleteCheckIn changes the UserBadge rows, the Point ledger or
\* the owner's totalPoints.
C9_DeleteKeepsAwards ==
  [][\A p \in Procs :
       procs[p].op = "deleteCheckIn" =>
         /\ user_badges' = user_badges
         /\ points' = points
         /\ \A u \in Users : user_stats'[u].totalPoints = user_stats[u].totalPoints]_vars

\* C10: whenever no request is in flight, each user's totalBooks is the number of
\* distinct books among the user's check-ins and totalReadingTime the sum of
\* their reading times.
C10_StatsMatchLedger ==
  AllIdle =>
    \A u \in Users :
      /\ user_stats[u].totalBooks = Cardinality({c.bookId : c \in UserCheckIns(u)})
      /\ user_stats[u].totalReadingTime = SumReadingTime(UserCheckIns(u))

\* C11: there is at most one CheckIn row per (userId, bookId, date) in every
\* interleaving of concurrent createCheckIn calls, and a createCheckIn is turned
\* away (by the duplicate check or by the insert) only when the user already has
\* a row for that book and day: check-ins of other books on the day are accepted.
C11_OnlyDuplicatesRefused ==
  \A p \in Procs :
    LET me == procs'[p] IN
    ( /\ me.op = "createCheckIn"
      /\ procs[p].pc \in {"idle", "cc_insert"}
      /\ me.pc = "done" )
    => \E c \in checkins :
         c.userId = me.userId /\ c.bookId = me.bookId /\ c.checkinDate = me.today

C11_CheckInUniqueness ==
  /\ [](\A c \in checkins : \A d \in checkins :
          (c.userId = d.userId /\ c.bookId = d.bookId /\ c.checkinDate = d.checkinDate)
            => c = d)
  /\ [][C11_OnlyDuplicatesRefused]_vars

\* two createCheckIn calls for one book raced past the duplicate check and the
\* insert of the second was rejected, on a day on which the user also has a
\* check-in of another book
C11_Witness ==
  \E p \in Procs :
    /\ procs[p].op = "createCheckIn"
    /\ procs[p].pc = "done"
    /\ procs[p].ret = "error"
    /\ procs[p].id = 0
    /\ \E c \in checkins, d \in checkins :
         /\ c.userId = procs[p].userId /\ d.userId = procs[p].userId
         /\ c.checkinDate = procs[p].today /\ d.checkinDate = procs[p].today
         /\ c.bookId = procs[p].bookId /\ d.bookId # procs[p].bookId

RECURSIVE SumBadgePoints(_)
SumBadgePoints(S) ==
  IF S = {} THEN 0
  ELSE LET b == CHOOSE x \in S : TRUE
       IN badges[b].points + SumBadgePoints(S \ {b})

\* the badges a user holds that the scan of request `me` did not find earned
GrantedBy(me) == {b \in BadgeIds : user_badges[me.userId][b] > 0} \ me.earned

\* C12: with one request at a time, when a createCheckIn has granted badges, the
\* ledger holds exactly one Point entry of badge.points for each of them and the
\* user's totalPoints is totalPoints as it was when the check-in arrived plus the
\* sum of those rewards.
C12_BadgeGrantEffect ==
  \A p \in Procs :
    LET me == procs[p] IN
    ( /\ me.op = "createCheckIn" /\ me.pc = "done" /\ me.ret = "ok"
      /\ GrantedBy(me) # {} )
    => /\ \A b \in GrantedBy(me) :
            CopiesIn([userId |-> me.userId, points |-> badges[b].points,
                      reason |-> "badge", relatedId |-> b, relatedType |-> "badge",
                      createdAt |-> me.today], points) = 1
       /\ user_stats[me.userId].totalPoints =
            me.pointsBefore + SumBadgePoints(GrantedBy(me))

\* C13: getCheckInStreak returns 0 for a user with no check-ins, and returns 0
\* whenever the most recent check-in date is neither today nor yesterday,
\* whatever older dates there are.
C13_BrokenStreakIsZero ==
  call.op = "getCheckInStreak" =>
    /\ call.dates = {} => call.ret = 0
    /\ (call.dates # {} /\ \A d \in call.dates : d < call.today - 1) => call.ret = 0

\* a call for a user whose last check-ins were two consecutive days that ended
\* before yesterday
C13_Witness ==
  /\ call.op = "getCheckInStreak"
  /\ call.dates = {call.today - 3, call.today - 2}
  /\ call.ret = 0

\* the condition of catalog badge b, of user u's stored stats and check-ins
ConditionHolds(b, u) ==
  LET c == badges[b].condition
      st == user_stats[u]
  IN \/ c = "first_checkin" /\ st.totalBooks >= 1
     \/ c = "streak_7" /\ st.consecutiveDays >= 7
     \/ c = "streak_30" /\ st.consecutiveDays >= 30
     \/ c = "books_100" /\ st.totalBooks >= 100
     \/ c = "time_100h" /\ st.totalReadingTime >= 6000
     \/ c = "notes_50" /\ NotesCount(u) >= 50

ScanCompleted(me) ==
  \/ me.op = "createCheckIn" /\ me.pc = "done" /\ me.ret = "ok"
  \/ me.op = "checkAndAwardBadges" /\ me.pc = "done" /\ me.ret = "scanned"

BadgeRewardRows(u, b) ==
  {r \in BagToSet(points) : r.userId = u /\ r.relatedType = "badge" /\ r.relatedId = b}

\* C15: when two badge scans of a user interleave and the UserBadge insert of one
\* is rejected by the uniqueness constraint, the scan whose insert was rejected
\* does not fail its operation and goes on to the remaining badges, and the
\* badge's points are in the ledger once.
C15_RejectionAbsorbed ==
  \A p \in Procs :
    LET me == procs[p] IN
    ( /\ me.pc \in {"cab_badge", "ab_insert"}
      /\ procs'[p] # me
      /\ user_badges[me.userId][me.bi] > 0 )
    => IF me.op = "createCheckIn"
       THEN procs'[p] = LoopFrom(me, me.bi + 1)
       ELSE procs'[p] = AfterAward(me, FALSE)

C15_DoubleScanAbsorbed ==
  /\ [](\A u \in Users : \A b \in BadgeIds :
          CountCopies(BadgeRewardRows(u, b), points) <= 1)
  /\ [][C15_RejectionAbsorbed]_vars

\* C16: within one createCheckIn, the recompute has stored the user's stats
\* before the badge scan begins (the scan reads the row just written), and the
\* level is settled (the stored level raised, the bonus granted) only after the
\* badge scan is over.
C16_Order ==
  \A p \in Procs :
    LET me == procs[p] IN
    me.op = "createCheckIn" =>
      /\ me.pc = "cab_stats" =>
           user_stats[me.userId] = ReplacedStats(me.agg, me.streak, me.longest)
      /\ user_stats'[me.userId].level # user_stats[me.userId].level =>
           me.pc \notin {"cc_insert", "us_agg", "us_streak", "us_longest", "us_write",
                         "cab_stats", "cab_earned", "cab_notes", "cab_badge",
                         "cab_points", "cab_total"}

C16_ProcessingOrder == [][C16_Order]_vars

\* C17: a createCheckIn for a user and book that already have a check-in today
\* ends in the conflict error, and from its arrival to its response the CheckIn,
\* UserStats, UserBadge and Point tables stay as they were (no insert, no
\* recompute, no badge scan).
C17_Step ==
  \A p \in Procs :
    /\ ( /\ procs[p].pc = "idle"
         /\ procs'[p].op = "createCheckIn"
         /\ \E c \in checkins : /\ c.userId = procs'[p].userId
                                /\ c.bookId = procs'[p].bookId
                                /\ c.checkinDate = today )
       => /\ procs'[p].pc = "done"
          /\ procs'[p].ret = "conflict"
          /\ UNCHANGED <<checkins, user_stats, user_badges, points>>
    /\ (procs[p].op = "createCheckIn" /\ procs[p].ret = "conflict")
       => /\ procs'[p] = Idle
          /\ UNCHANGED <<checkins, user_stats, user_badges, points>>

C17_DuplicateIsConflict == [][C17_Step]_vars

\* a second check-in of a book on one day has been answered with the conflict
C17_Witness ==
  \E p \in Procs :
    /\ procs[p].op = "createCheckIn"
    /\ procs[p].pc = "done"
    /\ procs[p].ret = "conflict"
    /\ \E c \in checkins : /\ c.userId = procs[p].userId
                           /\ c.bookId = procs[p].bookId
                           /\ c.checkinDate = procs[p].today

\* C18: deleteCheckIn(id, userId) removes the row and starts the recompute of
\* userId's stats only when the check-in exists and belongs to userId; for a
\* missing check-in or another user's check-in it returns false, and no step of
\* it removes another check-in or changes another user's stats.
C18_Step ==
  \A p \in Procs :
    LET me == procs'[p] IN
    /\ (procs[p].pc = "idle" /\ me.op = "deleteCheckIn") =>
         IF \E c \in checkins : c.id = me.id /\ c.userId = me.userId
         THEN me.pc = "dc_delete"
         ELSE me.pc = "done" /\ me.ret = "false"
    /\ (procs[p].op = "deleteCheckIn" /\ procs[p].pc = "dc_delete") =>
         /\ checkins' = {c \in checkins : c.id # me.id}
         /\ (checkins' # checkins) =>
              /\ me.pc = "us_agg"
              /\ \A c \in checkins \ checkins' : c.userId = me.userId
    /\ (procs[p].op = "deleteCheckIn" /\ procs[p].pc # "dc_delete") =>
         /\ checkins' = checkins
         /\ \A v \in Users \ {procs[p].userId} : user_stats'[v] = user_stats[v]
    /\ (me.op = "deleteCheckIn" /\ me.pc = "done" /\ me.ret = "false") =>
         checkins' = checkins /\ user_stats' = user_stats

C18_OnlyOwnerDeletes == [][C18_Step]_vars

\* a user's deleteCheckIn of another user's check-in has returned false and the
\* check-in is still there
C18_Witness ==
  \E p \in Procs :
    /\ procs[p].op = "deleteCheckIn"
    /\ procs[p].pc = "done"
    /\ procs[p].ret = "false"
    /\ \E c \in checkins : c.id = procs[p].id /\ c.userId # procs[p].userId

\* C19: a createCheckIn that has failed after its INSERT (in the recompute or in
\* a later step) has left no trace: its CheckIn row is not in the table and the
\* user's stats do not count it.
C19_FailureLeavesNoTrace ==
  \A p \in Procs :
    LET me == procs[p] IN
    (me.op = "createCheckIn" /\ me.pc = "done" /\ me.ret = "error" /\ me.id # 0)
    => /\ ~\E c \in checkins : c.id = me.id
       /\ user_stats[me.userId].totalBooks <=
            Cardinality({c.bookId : c \in {d \in UserCheckIns(me.userId) : d.id # me.id}})

\* C20: the scheduler is Stopped (it holds no handle, no timer of its is set,
\* getStatus() = {active: false, taskCount: 0}) or Running (getStatus().active);
\* start from Stopped yields Running; stop yields Stopped with every timer
\* cleared, after which no tick fires; stop when Stopped changes nothing.
C20_Step ==
  /\ (intervals = <<>> /\ Start) => getStatus'.active
  /\ Stop => /\ intervals' = <<>>
             /\ timers' = {}
             /\ due' = {}
  /\ (intervals = <<>> /\ Stop) => UNCHANGED vars
  /\ (\E h \in timers : Tick(h)) => getStatus.active

C20_SchedulerStateMachine ==
  /\ [](/\ intervals = <<>> =>
            (timers = {} /\ getStatus = [active |-> FALSE, taskCount |-> 0])
        /\ intervals # <<>> => getStatus.active
        /\ timers = {intervals[i] : i \in DOMAIN intervals})
  /\ [][C20_Step]_vars

\* the scheduler was started and ran into an hour in which its timers came due,
\* and a stop has left it Stopped with no timer set
C20_Witness ==
  /\ nextHandle > 1
  /\ elapsed > 0
  /\ intervals = <<>>
  /\ timers = {}
  /\ \E t \in Tasks : checks[t] > 0


\* the users the inactive-today scan is for: children with a check-in on an
\* earlier day and none today
ReadingTargets ==
  {u \in Users : /\ role(u) = "child"
                 /\ \E c \in UserCheckIns(u) : c.checkinDate < today
                 /\ ~\E c \in UserCheckIns(u) : c.checkinDate = today}

\* C21: one run of checkAndSendReadingReminders creates an inactive-today
\* reminder for exactly the children that have a check-in on some earlier date,
\* none today and no such reminder of today yet: when the run is over each of
\* them has one, and no reminder is created for anyone else.
C21_Step ==
  \A n \in notifications' \ notifications :
    n.title = "reading" =>
      /\ n.userId \in ReadingTargets
      /\ existingReminder(n.userId, today, "reading") = {}

C21_ReadingScanTargets ==
  /\ [](\A p \in Procs :
          (procs[p].op = "checkAndSendReadingReminders" /\ procs[p].pc = "done")
          => \A u \in ReadingTargets : existingReminder(u, today, "reading") # {})
  /\ [][C21_Step]_vars

\* the parents the inactive-N-days scan is for: those with a parent-child
\* relationship to a child that never checked in or whose most recent check-in
\* is 3 days old or older
ParentTargets ==
  {r.parentId : r \in {x \in user_relationships :
     /\ x.relationshipType = "parent-child"
     /\ role(x.childId) = "child"
     /\ \A c \in UserCheckIns(x.childId) : c.checkinDate <= today - 3}}

ParentRemindersToday ==
  {n \in notifications : n.type = "reminder" /\ n.title = "parent" /\ n.createdAt = today}

\* C22: after one run of checkAndSendParentReminders that started with no
\* inactive-N-days reminder dated today (every one there is was created by this
\* run), a parent has such a reminder iff a child of theirs never checked in or
\* last checked in 3 or more days ago; a child with a check-in in the last 2
\* days causes none.
C22_ParentScanTargets ==
  \A p \in Procs :
    (/\ procs[p].op = "checkAndSendParentReminders"
     /\ procs[p].pc = "done"
     /\ Cardinality(ParentRemindersToday) = procs[p].current)
    => \A u \in Users :
         existingReminder(u, today, "parent") # {} <=> u \in ParentTargets

\* the last NotificationService call that ended was a run of op on this
\* calendar day, and nothing but the steps of a run of op has happened since
LastRun(op) == call.op = op /\ call.today = today

\* C23: run again later on the same day with no other action in between,
\* checkAndSendReadingReminders and checkAndSendParentReminders create no
\* further reminder of their kind and cleanupOldNotifications deletes nothing
\* further.
C23_Step ==
  /\ LastRun("checkAndSendReadingReminders")
       => ~\E n \in notifications' \ notifications : n.title = "reading"
  /\ LastRun("checkAndSendParentReminders")
       => ~\E n \in notifications' \ notifications : n.title = "parent"
  /\ (LastRun("cleanupOldNotifications") /\ cleanupOldNotifications(DaysToKeep))
       => notifications' = notifications

C23_SequentialRerunIdempotent == [][C23_Step]_vars

\* a second run of checkAndSendReadingReminders has ended having created
\* nothing, after a first one that created the child's reminder of today
C23_Witness ==
  /\ call = Completed("checkAndSendReadingReminders", 0)
  /\ procs[1].op = "checkAndSendReadingReminders"
  /\ procs[1].pc = "done"
  /\ \E n \in notifications :
       n.title = "reading" /\ n.createdAt = today /\ n.userId \in ReadingTargets

\* C24: a scheduler started during a gate hour (and not stopped since) runs the
\* check of that hour at least once before the hour ends. The start is in the
\* hour the scheduler's process came up in (elapsed = 0), where no check had
\* run before.
C24_Step ==
  (AdvanceHour /\ elapsed = 0 /\ intervals # <<>>)
  => \A t \in Tasks : hour = GateHour(t) => checks[t] > 0

C24_RestartInGateHourFires == [][C24_Step]_vars

\* the operations the independence is about
GameOps ==
  {"createCheckIn", "deleteCheckIn", "checkAndAwardBadges", "updateLevel",
   "completeDailyChallenge"}

\* the Point entries of user u in ledger P
PointsOf(P, u) ==
  LET R == {r \in DOMAIN P : r.userId = u} IN [r \in R |-> P[r]]

\* C25: a step of an operation performed for user A (createCheckIn,
\* deleteCheckIn, a badge scan, updateLevel, completeDailyChallenge) leaves every
\* other user's UserStats, UserBadge rows and Point entries as they were, and
\* their check-ins too, which is all that the other user's operations read: so
\* B's state is what B's operations alone make it.
C25_Step ==
  \A p \in Procs :
    LET me == IF procs[p].pc = "idle" THEN procs'[p] ELSE procs[p] IN
    (procs'[p] # procs[p] /\ me.op \in GameOps)
    => \A b \in Users \ {me.userId} :
         /\ user_stats'[b] = user_stats[b]
         /\ user_badges'[b] = user_badges[b]
         /\ PointsOf(points', b) = PointsOf(points, b)
         /\ {c \in checkins' : c.userId = b} = {c \in checkins : c.userId = b}

C25_CrossUserIndependence == [][C25_Step]_vars

\* both users have a check-in counted and a badge granted, and a request of
\* each is under way at the same time
C25_Witness ==
  /\ \A u \in Users : user_stats[u].totalBooks >= 1 /\ user_badges[u][1] = 1
  /\ procs[1].pc \notin {"idle", "done"} /\ procs[1].userId = 1
  /\ procs[2].pc \notin {"idle", "done"} /\ procs[2].userId = 2

\* C26: once created, a CheckIn keeps its userId, bookId, date, reading time and
\* notes under every operation, updateCheckIn included.
C26_Step ==
  \A c \in checkins, d \in checkins' :
    c.id = d.id =>
      /\ d.userId = c.userId
      /\ d.bookId = c.bookId
      /\ d.checkinDate = c.checkinDate
      /\ d.readingTime = c.readingTime
      /\ d.notes = c.notes

C26_CheckInImmutable == [][C26_Step]_vars

\* C27: for every child and day at most one inactive-today reminder is ever
\* created, whatever the interleaving of the scans and the deletions; so no two
\* such reminders of one child and one day are ever stored.
C27_ReminderAtMostOnce ==
  \A m \in notifications, n \in notifications :
    (/\ m.title = "reading" /\ n.title = "reading"
     /\ m.type = "reminder" /\ n.type = "reminder"
     /\ m.userId = n.userId
     /\ m.createdAt = n.createdAt)
    => m.id = n.id

\* C28: for every badge condition tag, known or not, and every UserStats value,
\* the check-in path's threshold comparison and the on-demand path's
\* `percentage >= 100` decide alike whether the badge is earned, and both book
\* the same number of points.
C28_EvaluatorsAgree ==
  call.op = "awardBadge" => call.ret.scan = call.ret.award

\* 6000 minutes of reading: both paths grant time_100h and book its 500 points
C28_Witness ==
  /\ call.op = "awardBadge"
  /\ call.ret.badge.condition = "time_100h"
  /\ call.ret.stats.totalReadingTime = 6000
  /\ call.ret.scan = [earned |-> TRUE, credited |-> 500]
  /\ call.ret.award = [earned |-> TRUE, credited |-> 500]

\* C29: in every stored UserStats row consecutiveDays <= longestStreak, after
\* any sequence and interleaving of createCheckIn and deleteCheckIn (and of the
\* other requests).
C29_StreakBound ==
  \A u \in Users : user_stats[u].consecutiveDays <= user_stats[u].longestStreak

\* a recompute has stored a streak shorter than the longest one the user had,
\* while another request of the user is under way
C29_Witness ==
  /\ user_stats[1].longestStreak >= 1
  /\ user_stats[1].consecutiveDays < user_stats[1].longestStreak
  /\ \E p \in Procs : procs[p].op \in {"createCheckIn", "deleteCheckIn"}
                      /\ procs[p].pc \notin {"idle", "done"}

\* C30: the interval list holds exactly the timers that are set, each once; every
\* start adds 3 to getStatus().taskCount and nothing but a stop takes any away,
\* so taskCount is 3 times the number of starts since the last stop; one stop,
\* after any number of starts, clears every timer and leaves taskCount 0.
C30_Step ==
  /\ Start => getStatus'.taskCount = getStatus.taskCount + 3
  /\ Stop => (getStatus'.taskCount = 0 /\ timers' = {})
  /\ ~(Start \/ Stop) => getStatus'.taskCount = getStatus.taskCount

C30_NoLeakedTimers ==
  /\ [](/\ timers = {intervals[i] : i \in DOMAIN intervals}
        /\ Cardinality(timers) = getStatus.taskCount)
  /\ [][C30_Step]_vars

\* two starts without a stop in between: six timers are set and held, and they
\* have come due
C30_Witness ==
  /\ getStatus.taskCount = 6
  /\ Cardinality(timers) = 6
  /\ due # {}
====
